---- MODULE Spec2Model ----
(***************************************************************************)
(* Model of rag_modules/data_preparation.py: DataPreparationModule.        *)
(*                                                                         *)
(* Abstractions used throughout:                                           *)
(*  - a uuid4 string is a positive integer drawn from a counter (nextId);  *)
(*    NoId (0) stands for an absent / None / empty parent_id, GhostId for  *)
(*    a uuid this pipeline never issued;                                   *)
(*  - page_content is a sequence of heading-scoped blocks; a block is the  *)
(*    length of the longest run of star glyphs inside it, so that          *)
(*    ("*" repeated k times) in content  <=>  some block is >= k; the      *)
(*    external MarkdownHeaderTextSplitter emits one fragment per block     *)
(*    and none for empty content; len() counts blocks;                     *)
(*  - a path is [dirs, name]; Path.parts is dirs followed by name.         *)
(***************************************************************************)
EXTENDS Integers, Sequences, FiniteSets, TLC

VARIABLES documents, chunks, parent_child_map, nextId, call

vars == <<documents, chunks, parent_child_map, nextId, call>>

\* ---------------------------------------------------------------- bounds
MaxFrags == 2
MaxIds == 6
MaxHits == 3

NoId == 0
GhostId == -1

\* ------------------------------------------------------------- utilities
Range(s) == {s[i] : i \in 1..Len(s)}

SeqsUpTo(S, n) == UNION {[1..k -> S] : k \in 0..n}

MaxOf(S) == CHOOSE x \in S : \A y \in S : y <= x

\* dict.update: entries of new override those of old
Update(old, new) == new @@ old

\* ------------------------------------------------------ _enhance_metadata
\* category_mapping, in declaration order (a dict iterates in that order).
\* Labels are romanised: hun_cai, su_cai, tang_pin, tian_pin, zao_can,
\* zhu_shi, shui_chan, tiao_liao, yin_pin; default qi_ta.
category_mapping ==
  << <<"meat_dish", "hun_cai">>,
     <<"vegetable", "su_cai">>,
     <<"soup", "tang_pin">>,
     <<"desert", "tian_pin">>,
     <<"breakfast", "zao_can">>,
     <<"staple", "zhu_shi">>,
     <<"squatic", "shui_chan">>,
     <<"condiment", "tiao_liao">>,
     <<"drink", "yin_pin">> >>

DefaultCategory == "qi_ta"

PathParts(path) == Append(path.dirs, path.name)

\* Path.stem for the file names of the model
Stem(name) ==
  CASE name = "a.md" -> "a"
    [] name = "b.md" -> "b"
    [] OTHER -> name

RECURSIVE CategoryFrom(_, _)
\* variant of CategoryFrom scanning the path's segments instead of the mapping
CategoryFromPathOrder(path_parts, i) ==
  LET hits == {j \in 1..Len(path_parts) :
                 \E k \in 1..Len(category_mapping) :
                    category_mapping[k][1] = path_parts[j]}
  IN IF hits = {} THEN DefaultCategory
     ELSE LET j == CHOOSE x \in hits : \A y \in hits : x <= y
              k == CHOOSE x \in 1..Len(category_mapping) :
                     category_mapping[x][1] = path_parts[j]
          IN category_mapping[k][2]

\* for key, value in category_mapping.items(): if key in path_parts: ... break
CategoryFrom(path_parts, i) ==
  IF i > Len(category_mapping) THEN DefaultCategory
  ELSE IF category_mapping[i][1] \in Range(path_parts)
       THEN category_mapping[i][2]
       ELSE CategoryFrom(path_parts, i + 1)

\* longest run of star glyphs anywhere in the content
Stars(content) == IF content = <<>> THEN 0 ELSE MaxOf(Range(content))

Difficulty(content) ==
  IF Stars(content) >= 5 THEN "fei_chang_kun_nan"
  ELSE IF Stars(content) >= 4 THEN "kun_nan"
  ELSE IF Stars(content) >= 3 THEN "zhong_deng"
  ELSE IF Stars(content) >= 2 THEN "bi_jiao_jian_dan"
  ELSE IF Stars(content) >= 1 THEN "jian_dan"
  ELSE "nan_du_wei_zhi"

EnhanceMetadata(doc) ==
  LET file_path == doc.metadata.source
      patch == [category |-> CategoryFrom(PathParts(file_path), 1),
                dish_name |-> Stem(file_path.name),
                difficulty |-> Difficulty(doc.page_content)]
  IN [doc EXCEPT !.metadata = Update(doc.metadata, patch)]

\* --------------------------------------------------------- load_documents
\* Document(page_content=content, metadata={source, parent_id, doc_type})
NewDocument(file, parent_id) ==
  [page_content |-> file.page_content,
   metadata |-> [source |-> file.source,
                 parent_id |-> parent_id,
                 doc_type |-> "parent"]]

\* listing: what rglob("*.md") yields, in its (unspecified) order
LoadDocuments(listing) ==
  /\ nextId + Len(listing) <= MaxIds + 1
  /\ IF \E i \in 1..Len(listing) : ~listing[i].readable
     THEN \* open() raises; the exception leaves load_documents before
          \* self.documents is assigned.  The uuids drawn for the files
          \* before it are dropped with the local list; nothing refers to
          \* them, so the counter need not move.
          /\ call' = [op |-> "load_documents", outcome |-> "OSError",
                      arg |-> listing, ret |-> <<>>]
          /\ UNCHANGED <<documents, chunks, parent_child_map, nextId>>
     ELSE LET docs == [i \in 1..Len(listing) |->
                         EnhanceMetadata(NewDocument(listing[i], nextId + i - 1))]
          IN /\ documents' = docs
             /\ nextId' = nextId + Len(listing)
             /\ call' = [op |-> "load_documents", outcome |-> "returned",
                         arg |-> listing, ret |-> docs]
             /\ UNCHANGED <<chunks, parent_child_map>>

\* -------------------------------------------------- _markdown_header_split
\* markdown_splitter.split_text(content): one fragment per block, in order,
\* each carrying the splitter's own header metadata; none for empty content.
SplitText(content) ==
  [i \in 1..Len(content) |->
     [page_content |-> <<content[i]>>,
      metadata |-> [zhu_biao_ti |-> "header"]]]

\* chunk.metadata.update(doc.metadata); chunk.metadata.update({...})
\* i is the zero-based enumerate() index
ChildMetadata(fragment_metadata, doc, i, child_id) ==
  Update(Update(fragment_metadata, doc.metadata),
         [chunk_id |-> child_id,
          parent_id |-> doc.metadata.parent_id,
          doc_type |-> "child",
          chunk_index |-> i])

\* variant of ChildrenOf numbering the fragments from one
ChildrenOfOneBased(doc, firstId) ==
  LET md_chunks == SplitText(doc.page_content)
  IN [k \in 1..Len(md_chunks) |->
        [page_content |-> md_chunks[k].page_content,
         metadata |-> ChildMetadata(md_chunks[k].metadata, doc, k,
                                    firstId + k - 1)]]

\* the inner loop over one document's fragments; uuids are drawn in order
ChildrenOf(doc, firstId) ==
  LET md_chunks == SplitText(doc.page_content)
  IN [k \in 1..Len(md_chunks) |->
        [page_content |-> md_chunks[k].page_content,
         metadata |-> ChildMetadata(md_chunks[k].metadata, doc, k - 1,
                                    firstId + k - 1)]]

\* variant of Register keyed by the parent: map[parent_id] = child_id
RegisterParentKeyed(pcm, doc, firstId, n) ==
  [id \in (IF n > 0 THEN {doc.metadata.parent_id} ELSE {}) |-> firstId + n - 1]
  @@ pcm

\* self.parent_child_map[child_id] = parent_id, once per fragment, with the
\* loop's own child_id and parent_id
Register(pcm, doc, firstId, n) ==
  [id \in firstId..(firstId + n - 1) |-> doc.metadata.parent_id] @@ pcm

RECURSIVE SplitFrom(_, _, _, _, _)
\* for doc in self.documents: ... all_chunks.extend(md_chunks)
SplitFrom(docs, d, all_chunks, pcm, id) ==
  IF d > Len(docs) THEN [all_chunks |-> all_chunks, pcm |-> pcm, id |-> id]
  ELSE LET children == ChildrenOf(docs[d], id)
       IN SplitFrom(docs, d + 1, all_chunks \o children,
                    Register(pcm, docs[d], id, Len(children)),
                    id + Len(children))

MarkdownHeaderSplit(docs, pcm, id) == SplitFrom(docs, 1, <<>>, pcm, id)

\* -------------------------------------------------------- chunk_documents
\* the enumerate() loop of chunk_documents over the returned chunks; fresh
\* is the uuid drawn when a chunk has no chunk_id (every chunk that
\* _markdown_header_split returns has one)
Finish(chunk, i, fresh) ==
  LET withId == IF "chunk_id" \in DOMAIN chunk.metadata
                THEN chunk.metadata
                ELSE Update(chunk.metadata, [chunk_id |-> fresh])
  IN [chunk EXCEPT !.metadata =
        Update(withId, [batch_index |-> i,
                        chunk_size |-> Len(chunk.page_content)])]

TotalFragments(docs) ==
  LET RECURSIVE Sum(_)
      Sum(d) == IF d > Len(docs) THEN 0
                ELSE Len(SplitText(docs[d].page_content)) + Sum(d + 1)
  IN Sum(1)

\* chunk_documents past its precondition
ChunkBody ==
  /\ nextId + TotalFragments(documents) <= MaxIds + 1
  /\ LET split == MarkdownHeaderSplit(documents, parent_child_map, nextId)
         done == [i \in 1..Len(split.all_chunks) |->
                    Finish(split.all_chunks[i], i - 1, split.id + i - 1)]
     IN /\ chunks' = done
        /\ parent_child_map' = split.pcm
        /\ nextId' = split.id
        /\ call' = [op |-> "chunk_documents", outcome |-> "returned",
                    arg |-> <<>>, ret |-> done]
  /\ UNCHANGED documents

\* variant of ChunkDocuments without the precondition
ChunkDocumentsNoCheck == ChunkBody

ChunkDocuments ==
  IF documents = <<>>
  THEN \* raise ValueError
       /\ call' = [op |-> "chunk_documents", outcome |-> "ValueError",
                   arg |-> <<>>, ret |-> <<>>]
       /\ UNCHANGED <<documents, chunks, parent_child_map, nextId>>
  ELSE ChunkBody

\* --------------------------------------------------- get_parent_documents
\* sorted(keys, key=lambda x: relevance[x], reverse=True): stable, so keys of
\* equal relevance keep their insertion order
RECURSIVE SortedByRelevance(_, _)
SortedByRelevance(keys, relevance) ==
  IF keys = <<>> THEN <<>>
  ELSE LET best == CHOOSE i \in 1..Len(keys) :
                     /\ \A j \in 1..Len(keys) : relevance[keys[j]] <= relevance[keys[i]]
                     /\ \A j \in 1..(i - 1) : relevance[keys[j]] < relevance[keys[i]]
           rest == [j \in 1..(Len(keys) - 1) |->
                      IF j < best THEN keys[j] ELSE keys[j + 1]]
       IN <<keys[best]>> \o SortedByRelevance(rest, relevance)

\* the list built from sorted_parent_ids and parent_docs_map
RECURSIVE ParentDocList(_, _)
ParentDocList(sorted_parent_ids, parent_docs_map) ==
  IF sorted_parent_ids = <<>> THEN <<>>
  ELSE (IF Head(sorted_parent_ids) \in DOMAIN parent_docs_map
        THEN <<parent_docs_map[Head(sorted_parent_ids)]>>
        ELSE <<>>)
       \o ParentDocList(Tail(sorted_parent_ids), parent_docs_map)

\* The body of "for chunk in child_chunks", from chunk i on.  child_chunks is
\* the sequence of the chunks' metadata.get("parent_id") values.  Both dicts
\* are still empty when the first truthy parent_id is met, because the body
\* returns in that very iteration.  The lookup loop iterates the KEYS of
\* parent_child_map, which are strings: reading .metadata of the first key
\* raises AttributeError; over an empty map the loop body never runs and
\* parent_docs_map stays empty.
RECURSIVE ScanChunks(_, _, _)
ScanChunks(child_chunks, pcm, i) ==
  IF i > Len(child_chunks)
  THEN \* the loop ends and the function falls off its end
       [outcome |-> "returned_None", ret |-> <<>>]
  ELSE LET parent_id == child_chunks[i]
       IN IF parent_id # NoId
          THEN LET parent_relevance == (parent_id :> 1)
                   keys == <<parent_id>>
                   parent_docs_map == <<>>
               IN IF DOMAIN pcm # {}
                  THEN [outcome |-> "AttributeError", ret |-> <<>>]
                  ELSE [outcome |-> "returned",
                        ret |-> ParentDocList(
                                  SortedByRelevance(keys, parent_relevance),
                                  parent_docs_map)]
          ELSE ScanChunks(child_chunks, pcm, i + 1)

GetParentDocuments(child_chunks) ==
  LET r == ScanChunks(child_chunks, parent_child_map, 1)
  IN /\ call' = [op |-> "get_parent_documents", outcome |-> r.outcome,
                 arg |-> child_chunks, ret |-> r.ret]
     /\ UNCHANGED <<documents, chunks, parent_child_map, nextId>>

\* ------------------------------------------------------------ inputs
\* the blocks a file of the corpus is made of (star-run lengths)
Blocks == {3}
Contents == SeqsUpTo(Blocks, MaxFrags)

SourcePaths ==
  {[dirs |-> <<"data", "soup">>, name |-> "a.md"],
   [dirs |-> <<"data">>, name |-> "b.md"]}

\* an unreadable file's content is never seen
Files ==
  {[source |-> p, readable |-> TRUE, page_content |-> c] :
      p \in SourcePaths, c \in Contents}
  \cup {[source |-> p, readable |-> FALSE, page_content |-> <<>>] :
          p \in SourcePaths}

\* rglob yields every file once, so a listing is no longer than the corpus
Listings ==
  {l \in SeqsUpTo(Files, Cardinality(SourcePaths)) :
     \A i, j \in 1..Len(l) : i # j => l[i].source # l[j].source}

\* parent_id values retrieval hits can carry: those of the pipeline's own
\* sections, none at all, or one of a foreign section
HitParentIds ==
  {chunks[i].metadata.parent_id : i \in 1..Len(chunks)} \cup {NoId, GhostId}

\* ------------------------------------------------------------ behaviour
\* __init__
Init ==
  /\ documents = <<>>
  /\ chunks = <<>>
  /\ parent_child_map = <<>>
  /\ nextId = 1
  /\ call = [op |-> "__init__", outcome |-> "returned", arg |-> <<>>, ret |-> <<>>]

Load == \E listing \in Listings : LoadDocuments(listing)

Chunk == ChunkDocuments

GetParents == \E child_chunks \in SeqsUpTo(HitParentIds, MaxHits) :
                GetParentDocuments(child_chunks)

Next == Load \/ Chunk \/ GetParents

Spec == Init /\ [][Next]_vars

\* loading and splitting alone
NextPipeline == Load \/ Chunk

SpecPipeline == Init /\ [][NextPipeline]_vars

\* loading, splitting, and retrieval probes of at most one hit
Probe == \E child_chunks \in SeqsUpTo(HitParentIds, 1) :
           GetParentDocuments(child_chunks)

NextProbe == Load \/ Chunk \/ Probe

SpecProbe == Init /\ [][NextProbe]_vars

\* one load of a single file, over all paths and contents
MaxDepth == 2
Segments == {"meat_dish", "soup", "drink", "misc"}
RichBlocks == 0..5

RichFiles ==
  {[source |-> [dirs |-> d, name |-> "a.md"], readable |-> TRUE,
    page_content |-> c] :
      d \in SeqsUpTo(Segments, MaxDepth), c \in SeqsUpTo(RichBlocks, MaxFrags)}

LoadFirst == /\ call.op = "__init__"
             /\ \E f \in RichFiles : LoadDocuments(<<f>>)

SpecEnrich == Init /\ [][LoadFirst]_vars

\* ------------------------------------------------------------ properties
DocIds == {documents[i].metadata.parent_id : i \in 1..Len(documents)}

DocWithId(id) ==
  documents[CHOOSE i \in 1..Len(documents) : documents[i].metadata.parent_id = id]

IsGet == call.op = "get_parent_documents"

\* the distinct resolvable parent ids of hits, in order of first encounter
RECURSIVE FirstSeen(_, _)
FirstSeen(hits, seen) ==
  IF hits = <<>> THEN seen
  ELSE FirstSeen(Tail(hits),
                 IF Head(hits) \in DocIds /\ Head(hits) \notin Range(seen)
                 THEN Append(seen, Head(hits)) ELSE seen)

Votes(hits) ==
  [id \in DocIds |-> Cardinality({i \in 1..Len(hits) : hits[i] = id})]

\* the ranked, duplicate-free parents the aggregation contract asks for
RankedParents(hits) ==
  LET order == SortedByRelevance(FirstSeen(hits, <<>>), Votes(hits))
  IN [k \in 1..Len(order) |-> DocWithId(order[k])]

\* C1: get_parent_documents returns the duplicate-free list of the parent
\* Documents of the given sections, most-matched parent first (two sections
\* of P1 and one of P2 give [P1, P2]).
C1_RankedParentsReturned ==
  (IsGet /\ call.arg # <<>> /\ \A i \in 1..Len(call.arg) : call.arg[i] \in DocIds)
    => (call.outcome = "returned" /\ call.ret = RankedParents(call.arg))

\* C2: every section in self.chunks has a parent_id that is the parent_id of
\* exactly one Document of self.documents.
C2_SectionsResolve ==
  \A i \in 1..Len(chunks) :
     Cardinality({d \in 1..Len(documents) :
        documents[d].metadata.parent_id = chunks[i].metadata.parent_id}) = 1

\* C3: get_parent_documents of an empty collection returns an empty list and
\* raises nothing, in every pipeline state.
C3_EmptyInputEmptyList ==
  (IsGet /\ call.arg = <<>>) => (call.outcome = "returned" /\ call.ret = <<>>)

\* C4: a section whose parent_id is absent or unresolvable is skipped without
\* raising; it adds no parent to the result and the parents of the valid
\* sections of the same input are still returned.
C4_UnresolvableSkipped ==
  (IsGet /\ \E i \in 1..Len(call.arg) : call.arg[i] \notin DocIds)
    => /\ call.outcome # "AttributeError"
       /\ \A k \in 1..Len(call.ret) : call.ret[k].metadata.parent_id \in DocIds
       /\ \A i \in 1..Len(call.arg) :
            call.arg[i] \in DocIds =>
              \E k \in 1..Len(call.ret) :
                 call.ret[k].metadata.parent_id = call.arg[i]

\* C5 as stated: with no Document loaded, chunk_documents and
\* get_parent_documents both fail with a state-precondition error and change
\* nothing.
C5_BothFailFast ==
  [][documents = <<>> /\ call'.op \in {"chunk_documents", "get_parent_documents"}
       => /\ call'.outcome = "ValueError"
          /\ UNCHANGED <<documents, chunks, parent_child_map>>]_vars

\* C5 as amended: with no Document loaded, chunk_documents fails with the
\* state-precondition error (ValueError); get_parent_documents has no such
\* check and never raises it; neither changes documents, chunks or
\* parent_child_map.
C5_OnlyChunkingChecksState ==
  [][documents = <<>>
       => /\ call'.op = "chunk_documents" =>
               /\ call'.outcome = "ValueError"
               /\ UNCHANGED <<documents, chunks, parent_child_map>>
          /\ call'.op = "get_parent_documents" =>
               /\ call'.outcome # "ValueError"
               /\ UNCHANGED <<documents, chunks, parent_child_map>>]_vars

\* chunk_documents was refused on an emptied document set while sections and
\* index entries of an earlier pass were present, and they are still there
C5_Witness ==
  /\ documents = <<>>
  /\ call.op = "chunk_documents"
  /\ call.outcome = "ValueError"
  /\ chunks # <<>>
  /\ DOMAIN parent_child_map # {}

\* C6: chunk_documents leaves no loaded Document without a section: each one,
\* also one the splitter returns no fragments for, gets at least one section
\* with an identity registered in parent_child_map.
C6_EveryDocumentHasSection ==
  (call.op = "chunk_documents" /\ call.outcome = "returned")
    => \A d \in 1..Len(documents) :
          \E i \in 1..Len(chunks) :
             /\ chunks[i].metadata.parent_id = documents[d].metadata.parent_id
             /\ chunks[i].metadata.chunk_id \in DOMAIN parent_child_map

Enriched(doc) ==
  {"source", "parent_id", "doc_type", "category", "dish_name", "difficulty"}
    \subseteq DOMAIN doc.metadata

\* C7: when one discovered file cannot be read, load_documents skips only
\* that file: every readable file of the listing yields an enriched Document
\* in self.documents, and no Document of the set is half-initialised.
C7_OnlyUnreadableSkipped ==
  (call.op = "load_documents"
     /\ Cardinality({i \in 1..Len(call.arg) : ~call.arg[i].readable}) = 1)
    => /\ \A i \in 1..Len(call.arg) :
            call.arg[i].readable =>
              \E d \in 1..Len(documents) :
                 /\ documents[d].metadata.source = call.arg[i].source
                 /\ documents[d].page_content = call.arg[i].page_content
       /\ \A d \in 1..Len(documents) : Enriched(documents[d])

KnownTokens == {category_mapping[k][1] : k \in 1..Len(category_mapping)}

LabelOf(token) ==
  category_mapping[CHOOSE k \in 1..Len(category_mapping) :
                     category_mapping[k][1] = token][2]

\* C8 as stated: the category is the label of the first path segment, in path
\* order, that is a known token, or the default label.
C8_FirstSegmentInPathOrder ==
  \A d \in 1..Len(documents) :
     LET parts == PathParts(documents[d].metadata.source)
         at == {j \in 1..Len(parts) : parts[j] \in KnownTokens}
     IN /\ "category" \in DOMAIN documents[d].metadata
        /\ documents[d].metadata.category =
             IF at = {} THEN DefaultCategory
             ELSE LabelOf(parts[CHOOSE j \in at : \A x \in at : j <= x])

\* C8 as amended: every Document gets exactly one category: the label of the
\* first token, in the declaration order of category_mapping, that equals
\* some segment of the path (wherever in the path it occurs), or the default
\* label when no segment is a known token.
C8_FirstTokenInMappingOrder ==
  \A d \in 1..Len(documents) :
     LET parts == Range(PathParts(documents[d].metadata.source))
         at == {k \in 1..Len(category_mapping) : category_mapping[k][1] \in parts}
     IN /\ "category" \in DOMAIN documents[d].metadata
        /\ documents[d].metadata.category =
             IF at = {} THEN DefaultCategory
             ELSE category_mapping[CHOOSE k \in at : \A x \in at : k <= x][2]

\* a path with soup before meat_dish was loaded and got the meat_dish label
C8_Witness ==
  \E d \in 1..Len(documents) :
     /\ documents[d].metadata.source.dirs = <<"soup", "meat_dish">>
     /\ documents[d].metadata.category = "hun_cai"

SectionsOf(id) ==
  SelectSeq(chunks, LAMBDA c : c.metadata.parent_id = id)

\* C9: the sections of one Document carry chunk_index 0..n-1, increasing in
\* the splitter's emission order, whatever was split before it and whatever
\* their batch_index.
C9_ChunkIndexContiguous ==
  /\ \A id \in {chunks[i].metadata.parent_id : i \in 1..Len(chunks)} :
        \A k \in 1..Len(SectionsOf(id)) :
           SectionsOf(id)[k].metadata.chunk_index = k - 1
  /\ (call.op = "chunk_documents" /\ call.outcome = "returned")
       => \A d \in 1..Len(documents) :
             LET mine == SectionsOf(documents[d].metadata.parent_id)
                 emitted == SplitText(documents[d].page_content)
             IN /\ Len(mine) = Len(emitted)
                /\ \A k \in 1..Len(mine) :
                      mine[k].page_content = emitted[k].page_content

\* two Documents were split, the second into several sections whose
\* batch_index differs from their chunk_index
C9_Witness ==
  /\ call.op = "chunk_documents"
  /\ Len(documents) = 2
  /\ Len(SectionsOf(documents[1].metadata.parent_id)) = 2
  /\ Len(SectionsOf(documents[2].metadata.parent_id)) = 2
  /\ \E i \in 1..Len(chunks) :
        /\ chunks[i].metadata.chunk_index = 1
        /\ chunks[i].metadata.batch_index = 3

CurrentLinks ==
  {<<chunks[i].metadata.chunk_id, chunks[i].metadata.parent_id>> :
     i \in 1..Len(chunks)}

\* C10 as stated: parent_child_map is exactly {chunk_id -> parent_id} of the
\* sections in self.chunks, with no entry left from an earlier pass.
C10_MapIsExactlyCurrent ==
  {<<id, parent_child_map[id]>> : id \in DOMAIN parent_child_map} = CurrentLinks

\* C10 as amended: parent_child_map holds, for every section in self.chunks,
\* the entry chunk_id -> parent_id; it is never cleared, so it may also hold
\* the entries of earlier splitting passes.
C10_MapCoversCurrent ==
  \A i \in 1..Len(chunks) :
     /\ chunks[i].metadata.chunk_id \in DOMAIN parent_child_map
     /\ parent_child_map[chunks[i].metadata.chunk_id] = chunks[i].metadata.parent_id

\* after a repeated pass: current sections are registered next to stale entries
C10_Witness ==
  /\ call.op = "chunk_documents"
  /\ chunks # <<>>
  /\ Cardinality(DOMAIN parent_child_map) > Len(chunks)

====
